---- MODULE Spec2Model ----
(***************************************************************************)
(* Model of final_review_gate.py: the review gate's read-evaluate loop.    *)
(*                                                                         *)
(* Text is modelled as sequences of one-character strings.  A CJK          *)
(* character is written by its code point ("U5B8C" is U+5B8C), the Kelvin  *)
(* sign as "U212A" and the ideographic space as "U3000".  The literal      *)
(* parts of an f-string are single tokens, the interpolated parts are      *)
(* character sequences.                                                    *)
(***************************************************************************)
EXTENDS Integers, Sequences, FiniteSets, TLC

VARIABLES
    pc,              \* position of the single thread of control
    active_session,  \* line 23
    prompt_count,    \* line 24
    line,            \* line 29: the last value returned by readline
    err,             \* the exception bound by "except Exception as e"
    out,             \* lines written to standard output so far
    inp,             \* lines returned by readline so far (history)
    nread,           \* number of readline calls made so far (history)
    state,           \* session state: the branch that ended the loop
    now,             \* the wall clock, in seconds after Epoch
    exit_code        \* the process's exit status, -1 while it runs

vars == <<pc, active_session, prompt_count, line, err, out, inp, nread, state, now,
          exit_code>>

----------------------------------------------------------------------------
(* Bounds of the model *)

\* the loop is cut after this many iterations
MaxPrompts == 2
\* a finite input stream holds at most this many lines before it is closed
MaxStream == 3

----------------------------------------------------------------------------
(* Characters and the str methods the loop uses *)

Letters == <<"a","b","c","d","e","f","g","h","i","j","k","l","m",
             "n","o","p","q","r","s","t","u","v","w","x","y","z">>

Capitals == <<"A","B","C","D","E","F","G","H","I","J","K","L","M",
              "N","O","P","Q","R","S","T","U","V","W","X","Y","Z">>

\* faulty variant: only the ASCII whitespace is removed
WhitespaceAscii == {" ", "\t", "\n"}

\* the characters str.strip() removes (those for which str.isspace() holds)
Whitespace == {" ", "\t", "\n", "U3000"}

\* str.lower() on one character: A-Z and the Kelvin sign have a lowercase
\* mapping, every other character of the model is left alone
LowerChar(c) ==
    IF \E i \in 1..26 : Capitals[i] = c
    THEN Letters[CHOOSE i \in 1..26 : Capitals[i] = c]
    ELSE IF c = "U212A" THEN "k" ELSE c

\* faulty variant: the input is compared without lowercasing
LowerAsIs(s) == s

\* str.lower()
Lower(s) == [i \in 1..Len(s) |-> LowerChar(s[i])]

RECURSIVE LStrip(_)
LStrip(s) ==
    IF s # <<>> /\ Head(s) \in Whitespace THEN LStrip(Tail(s)) ELSE s

RECURSIVE RStrip(_)
RStrip(s) ==
    IF s # <<>> /\ s[Len(s)] \in Whitespace
    THEN RStrip(SubSeq(s, 1, Len(s) - 1))
    ELSE s

\* faulty variant: only the line terminator is removed
StripNewline(s) ==
    IF s # <<>> /\ s[Len(s)] = "\n" THEN SubSeq(s, 1, Len(s) - 1) ELSE s

\* faulty variant: lstrip() in place of strip()
StripLeft(s) == LStrip(s)

\* str.strip()
Strip(s) == RStrip(LStrip(s))

----------------------------------------------------------------------------
(* The keyword tables *)

english_exit_keywords ==
    { <<"t","a","s","k","_","c","o","m","p","l","e","t","e">>,
      <<"c","o","n","t","i","n","u","e">>,
      <<"n","e","x","t">>,
      <<"e","n","d">>,
      <<"c","o","m","p","l","e","t","e">>,
      <<"e","n","d","t","a","s","k">>,
      <<"c","o","n","t","i","n","u","e","_","t","a","s","k">>,
      <<"e","n","d","_","t","a","s","k">>,
      <<"o","k">>,
      <<"o","k","a","y">>,
      <<"d","o","n","e">>,
      <<"p","r","o","c","e","e","d">>,
      <<"a","c","c","e","p","t">>,
      <<"a","p","p","r","o","v","e","d">>,
      <<"s","u","b","m","i","t">>,
      <<"f","i","n","a","l">>,
      <<"f","i","n","i","s","h">>,
      <<"g","o">> }

chinese_exit_keywords ==
    { <<"U6CA1","U95EE","U9898">>,
      <<"U7EE7","U7EED">>,
      <<"U4E0B","U4E00","U6B65">>,
      <<"U5B8C","U6210">>,
      <<"U7ED3","U675F","U4EFB","U52A1">>,
      <<"U7ED3","U675F">>,
      <<"U53EF","U4EE5">>,
      <<"U597D","U4E86">>,
      <<"U901A","U8FC7">>,
      <<"U63A5","U53D7">>,
      <<"U63D0","U4EA4">>,
      <<"U6700","U7EC8">>,
      <<"U641E","U5B9A">>,
      <<"U884C">> }

\* faulty variant: a Chinese keyword matches as a prefix (startswith)
IsExitKeywordPrefix(u) ==
    \/ Lower(u) \in english_exit_keywords
    \/ \E ch_keyword \in chinese_exit_keywords :
          /\ Len(u) >= Len(ch_keyword)
          /\ SubSeq(u, 1, Len(ch_keyword)) = ch_keyword

\* lines 63-70: is_exit_keyword_detected, for the trimmed input u
IsExitKeyword(u) ==
    \/ Lower(u) \in english_exit_keywords
    \/ \E ch_keyword \in chinese_exit_keywords : u = ch_keyword

----------------------------------------------------------------------------
(* The clock and the text written to standard output *)

Digits == <<"0","1","2","3","4","5","6","7","8","9">>

\* "%d"-style rendering of a natural number (the f-string's {prompt_count})
RECURSIVE DecStr(_)
DecStr(n) ==
    IF n < 10 THEN <<Digits[n + 1]>>
    ELSE DecStr(n \div 10) \o <<Digits[(n % 10) + 1]>>

\* faulty variant: the fields are not zero-padded
Pad2Unpadded(n) == DecStr(n)

\* zero-padded fields of strftime: %m %d %H %M %S and %Y
Pad2(n) == <<Digits[((n \div 10) % 10) + 1], Digits[(n % 10) + 1]>>

Pad4(n) == Pad2(n \div 100) \o Pad2(n % 100)

\* the local time of the run's first second
Epoch == [year |-> 2026, month |-> 12, day |-> 31,
          hour |-> 23, minute |-> 59, second |-> 59]

\* datetime.datetime.now(), t seconds after Epoch (t below one day)
DateTimeAt(t) ==
    LET s  == Epoch.second + t
        m  == Epoch.minute + (s \div 60)
        h  == Epoch.hour + (m \div 60)
        nd == h \div 24
    IN  [year   |-> IF nd = 0 THEN Epoch.year ELSE Epoch.year + 1,
         month  |-> IF nd = 0 THEN Epoch.month ELSE 1,
         day    |-> IF nd = 0 THEN Epoch.day ELSE nd,
         hour   |-> h % 24,
         minute |-> m % 60,
         second |-> s % 60]

\* .strftime("%Y-%m-%d %H:%M:%S")
Strftime(d) ==
    Pad4(d.year) \o <<"-">> \o Pad2(d.month) \o <<"-">> \o Pad2(d.day) \o <<" ">>
    \o Pad2(d.hour) \o <<":">> \o Pad2(d.minute) \o <<":">> \o Pad2(d.second)

Timestamp(t) == Strftime(DateTimeAt(t))

\* the literal parts of the f-strings of lines 18-20, 34, 44, 73, 78, 83, 88
BannerText ==
    << " Review Gate: The current step's initial implementation is complete.",
       " Please provide your sub-prompt for iterative modifications for THIS STEP,",
       " or enter an exit keyword (e.g., 'U5B8CU6210', 'next', 'task_complete', 'continue', 'ok') to finalize THIS STEP's review:" >>

EofText ==
    " --- REVIEW GATE: STDIN closed (EOF detected). Exiting review script for this step. ---"

WaitingText == " Review Gate (Prompt #"

ExitText ==
    " --- REVIEW GATE: User ended review for THIS STEP with keyword: '"

Marker == "USER_REVIEW_SUB_PROMPT:"

InterruptText ==
    " --- REVIEW GATE: User interrupted (Ctrl+C). Exiting review script for this step. ---"

ErrorText ==
    " --- REVIEW GATE: An error occurred in the review script for this step: "

\* the f-strings' "[{timestamp}]"
Stamp(ts) == <<"[">> \o ts \o <<"]">>

\* lines 18-20: the three banner lines, sharing one timestamp
BannerLines(ts) == [i \in 1..3 |-> Stamp(ts) \o <<BannerText[i]>>]

\* line 34
EofLine(ts) == Stamp(ts) \o <<EofText>>

\* faulty variant: the notice counts from zero
WaitingLineZeroBased(ts, n) ==
    Stamp(ts) \o <<WaitingText>> \o DecStr(n - 1)
    \o <<"): Waiting for input...">>

\* line 44
WaitingLine(ts, n) ==
    Stamp(ts) \o <<WaitingText>> \o DecStr(n) \o <<"): Waiting for input...">>

\* faulty variant: the notice cites the lowercased text that was matched
ExitLineLowered(ts, u, n) ==
    Stamp(ts) \o <<ExitText>> \o Lower(u) \o <<"' (after ">> \o DecStr(n)
    \o <<" prompts) ---">>

\* line 73
ExitLine(ts, u, n) ==
    Stamp(ts) \o <<ExitText>> \o u \o <<"' (after ">> \o DecStr(n)
    \o <<" prompts) ---">>

\* line 78
EchoLine(u) == <<Marker, " ">> \o u

\* line 83
InterruptLine(ts) == Stamp(ts) \o <<InterruptText>>

\* faulty variant: the notice leaves out the error's description
ErrorLineNoDetail(ts, e) == Stamp(ts) \o <<ErrorText>> \o <<" ---">>

\* line 88
ErrorLine(ts, e) == Stamp(ts) \o <<ErrorText>> \o e \o <<" ---">>

----------
(* The environment: what readline can return, and the faults *)

\* the forms of a letter that str.lower() maps to it
CaseForms(c) ==
    {c} \cup {Capitals[i] : i \in {j \in 1..26 : Letters[j] = c}}
        \cup (IF c = "k" THEN {"U212A"} ELSE {})

UpperChar(c) ==
    IF \E i \in 1..26 : Letters[i] = c
    THEN Capitals[CHOOSE i \in 1..26 : Letters[i] = c]
    ELSE c

\* every upper/lower-case spelling of kw
RECURSIVE Variants(_)
Variants(kw) ==
    IF kw = <<>> THEN {<<>>}
    ELSE {<<c>> \o v : c \in CaseForms(Head(kw)), v \in Variants(Tail(kw))}

\* three spellings of kw: as is, all capitals, capitalised
SampleVariants(kw) ==
    { kw,
      [i \in 1..Len(kw) |-> UpperChar(kw[i])],
      [kw EXCEPT ![1] = UpperChar(@)] }

\* the keywords short enough to be read in every spelling
ShortKeywords == {kw \in english_exit_keywords : Len(kw) <= 3}

LatinInputs ==
    UNION {Variants(kw) : kw \in ShortKeywords}
    \cup UNION {SampleVariants(kw) : kw \in english_exit_keywords \ ShortKeywords}
    \cup { <<"t","a","s","k","_","C","O","M","P","L","E","T","E">> }

\* inputs that are no exit keyword: prefixes, extensions and combinations of
\* keywords, a keyword with an inner space, CJK strings outside the table
OtherInputs ==
    { <<"h","e","l","l","o">>,
      <<"o","k"," ","g","o">>,
      <<"o","k","k">>,
      <<"U5B8C">>,
      <<"U5B8C","U6210","U4E86">>,
      <<"U5B8C"," ","U6210">>,
      <<"U7ED3","U675F","U4EFB">> }

\* the texts read with whitespace around them
PaddedInputs ==
    { <<"o","k">>, <<"U5B8C","U6210">>, <<"h","e","l","l","o">> }

LeftPads == { <<>>, <<" ","U3000">> }

RightPads == { <<>>, <<"\t"," ">> }

BlankLines == { <<"\n">>, <<"\t","U3000"," ","\n">>, <<" ">> }

\* a last line that reaches end of file without a newline
UnterminatedLines == { <<"o","k">>, <<"h","e","l","l","o">> }

\* the non-empty values sys.stdin.readline() returns
InputLines ==
    {u \o <<"\n">> : u \in LatinInputs \cup chinese_exit_keywords \cup OtherInputs}
    \cup {l \o u \o r \o <<"\n">> : l \in LeftPads, u \in PaddedInputs, r \in RightPads}
    \cup BlankLines
    \cup UnterminatedLines

\* str(e) of the exceptions readline raises
ReadErrors ==
    { <<"[Errno 5] Input/output error">>,
      <<"'utf-8' codec can't decode byte 0xff in position 0: invalid start byte">> }

\* str(e) of the exceptions print raises
WriteErrors == { <<"[Errno 32] Broken pipe">> }

----------------------------------------------------------------------------
(* The program *)

States == {"active", "closed", "user_exit", "interrupted", "error"}

\* lines 23-24 assign constants that nothing reads before line 25, so the
\* initial state carries them already; pc = "start" is before line 17
Init ==
    /\ pc = "start"
    /\ active_session = TRUE
    /\ prompt_count = 0
    /\ line = <<>>
    /\ err = <<>>
    /\ out = <<>>
    /\ inp = <<>>
    /\ nread = 0
    /\ state = "active"
    /\ now = 0
    /\ exit_code = -1

\* print(..., flush=True): the line reaches standard output
Emit(l) == out' = Append(out, l)

\* the time that passes while the thread is blocked in readline: the read
\* returns within the second it began in, or in the next one
Elapse == \E d \in {0, 1} : now' = now + d

\* lines 17-20
Banner ==
    /\ pc = "start"
    /\ out' = out \o BannerLines(Timestamp(now))
    /\ pc' = "loop"
    /\ UNCHANGED <<active_session, prompt_count, line, err, inp, nread, state, now, exit_code>>

\* lines 17-20: the k-th print raises, outside any try; the interpreter
\* prints a traceback and exits with status 1
BannerFault ==
    /\ pc = "start"
    /\ \E k \in 0..2 : out' = out \o SubSeq(BannerLines(Timestamp(now)), 1, k)
    /\ pc' = "crashed"
    /\ exit_code' = 1
    /\ UNCHANGED <<active_session, prompt_count, line, err, inp, nread, state, now>>

\* lines 25-26
LoopHead ==
    /\ pc = "loop"
    /\ active_session
    /\ prompt_count < MaxPrompts
    /\ prompt_count' = prompt_count + 1
    /\ pc' = "read"
    /\ UNCHANGED <<active_session, line, err, out, inp, nread, state, now, exit_code>>

\* lines 25-26: KeyboardInterrupt between two iterations, outside the try;
\* the interpreter dies of the signal (status 130)
LoopInterrupt ==
    /\ pc = "loop"
    /\ pc' = "crashed"
    /\ exit_code' = 130
    /\ UNCHANGED <<active_session, prompt_count, line, err, out, inp, nread, state, now>>

\* line 29: readline returns a line
ReadLine ==
    /\ pc = "read"
    /\ \E l \in InputLines :
          /\ line' = l
          /\ inp' = Append(inp, l)
    /\ nread' = nread + 1
    /\ Elapse
    /\ pc' = "proc"
    /\ UNCHANGED <<active_session, prompt_count, err, out, state, exit_code>>

\* line 29: readline returns '' at end of file
ReadEof ==
    /\ pc = "read"
    /\ line' = <<>>
    /\ nread' = nread + 1
    /\ Elapse
    /\ pc' = "proc"
    /\ UNCHANGED <<active_session, prompt_count, err, out, inp, state, exit_code>>

\* faulty variant: the read is outside the try, the interrupt propagates
ReadInterruptUncaught ==
    /\ pc = "read"
    /\ nread' = nread + 1
    /\ Elapse
    /\ pc' = "crashed"
    /\ exit_code' = 130
    /\ UNCHANGED <<active_session, prompt_count, line, err, out, inp, state>>

\* line 29: KeyboardInterrupt during the blocking read
ReadInterrupt ==
    /\ pc = "read"
    /\ nread' = nread + 1
    /\ Elapse
    /\ pc' = "except_kbi"
    /\ UNCHANGED <<active_session, prompt_count, line, err, out, inp, state, exit_code>>

\* line 29: readline raises
ReadError ==
    /\ pc = "read"
    /\ \E e \in ReadErrors : err' = e
    /\ nread' = nread + 1
    /\ Elapse
    /\ pc' = "except_exc"
    /\ UNCHANGED <<active_session, prompt_count, line, out, inp, state, exit_code>>

\* faulty variant: end of file is reported and the read is tried again
ProcessEofRetry ==
    /\ pc = "proc"
    /\ line = <<>>
    /\ Emit(EofLine(Timestamp(now)))
    /\ pc' = "loop"
    /\ UNCHANGED <<active_session, state, prompt_count, line, err, inp, nread, now, exit_code>>

\* lines 32-36; the break leads to the end of the script (line 90 is its
\* last line), so the process exits with status 0
ProcessEof ==
    /\ pc = "proc"
    /\ line = <<>>
    /\ Emit(EofLine(Timestamp(now)))
    /\ active_session' = FALSE
    /\ state' = "closed"
    /\ pc' = "done"
    /\ exit_code' = 0
    /\ UNCHANGED <<prompt_count, line, err, inp, nread, now>>

\* faulty variant: an empty line is not counted, the increment is undone
ProcessEmptyUncounted ==
    /\ pc = "proc"
    /\ line # <<>>
    /\ Strip(line) = <<>>
    /\ Emit(WaitingLine(Timestamp(now), prompt_count))
    /\ prompt_count' = prompt_count - 1
    /\ pc' = "loop"
    /\ UNCHANGED <<active_session, line, err, inp, nread, state, now, exit_code>>

\* lines 39-45
ProcessEmpty ==
    /\ pc = "proc"
    /\ line # <<>>
    /\ Strip(line) = <<>>
    /\ Emit(WaitingLine(Timestamp(now), prompt_count))
    /\ pc' = "loop"
    /\ UNCHANGED <<active_session, prompt_count, line, err, inp, nread, state, now, exit_code>>

\* faulty variant: the exit notice is printed but the loop goes on
ProcessExitContinues ==
    /\ pc = "proc"
    /\ line # <<>>
    /\ Strip(line) # <<>>
    /\ IsExitKeyword(Strip(line))
    /\ Emit(ExitLine(Timestamp(now), Strip(line), prompt_count))
    /\ pc' = "loop"
    /\ UNCHANGED <<active_session, prompt_count, line, err, inp, nread, state, now, exit_code>>

\* lines 39-40, 48-75
ProcessExit ==
    /\ pc = "proc"
    /\ line # <<>>
    /\ Strip(line) # <<>>
    /\ IsExitKeyword(Strip(line))
    /\ Emit(ExitLine(Timestamp(now), Strip(line), prompt_count))
    /\ active_session' = FALSE
    /\ state' = "user_exit"
    /\ pc' = "done"
    /\ exit_code' = 0
    /\ UNCHANGED <<prompt_count, line, err, inp, nread, now>>

\* faulty variant: the echo is followed by a waiting notice, two lines for
\* one line read
ProcessEchoTwice ==
    /\ pc = "proc"
    /\ line # <<>>
    /\ Strip(line) # <<>>
    /\ ~IsExitKeyword(Strip(line))
    /\ out' = Append(Append(out, EchoLine(Strip(line))),
                     WaitingLine(Timestamp(now), prompt_count))
    /\ pc' = "loop"
    /\ UNCHANGED <<active_session, prompt_count, line, err, inp, nread, state, now, exit_code>>

\* lines 39-40, 48-70, 76-78
ProcessEcho ==
    /\ pc = "proc"
    /\ line # <<>>
    /\ Strip(line) # <<>>
    /\ ~IsExitKeyword(Strip(line))
    /\ Emit(EchoLine(Strip(line)))
    /\ pc' = "loop"
    /\ UNCHANGED <<active_session, prompt_count, line, err, inp, nread, state, now, exit_code>>

\* lines 32-78: KeyboardInterrupt inside the try, before the line's output
ProcessInterrupt ==
    /\ pc = "proc"
    /\ pc' = "except_kbi"
    /\ UNCHANGED <<active_session, prompt_count, line, err, out, inp, nread, state, now, exit_code>>

\* lines 34, 44, 73, 78: the print of the line's output raises
ProcessError ==
    /\ pc = "proc"
    /\ \E e \in WriteErrors : err' = e
    /\ pc' = "except_exc"
    /\ UNCHANGED <<active_session, prompt_count, line, out, inp, nread, state, now, exit_code>>

\* lines 81-85
HandleInterrupt ==
    /\ pc = "except_kbi"
    /\ Emit(InterruptLine(Timestamp(now)))
    /\ active_session' = FALSE
    /\ state' = "interrupted"
    /\ pc' = "done"
    /\ exit_code' = 0
    /\ UNCHANGED <<prompt_count, line, err, inp, nread, now>>

\* faulty variant: the handler neither clears the flag nor breaks
HandleErrorNoBreak ==
    /\ pc = "except_exc"
    /\ Emit(ErrorLine(Timestamp(now), err))
    /\ state' = "error"
    /\ pc' = "loop"
    /\ UNCHANGED <<active_session, prompt_count, line, err, inp, nread, now, exit_code>>

\* lines 86-90
HandleError ==
    /\ pc = "except_exc"
    /\ Emit(ErrorLine(Timestamp(now), err))
    /\ active_session' = FALSE
    /\ state' = "error"
    /\ pc' = "done"
    /\ exit_code' = 0
    /\ UNCHANGED <<prompt_count, line, err, inp, nread, now>>

\* lines 82-83, 87-88: the handler's own print raises, or a second
\* KeyboardInterrupt arrives; no enclosing try catches it
HandlerFault ==
    /\ pc \in {"except_kbi", "except_exc"}
    /\ pc' = "crashed"
    /\ exit_code' = 1
    /\ UNCHANGED <<active_session, prompt_count, line, err, out, inp, nread, state, now>>

Next ==
    \/ Banner
    \/ BannerFault
    \/ LoopHead
    \/ LoopInterrupt
    \/ ReadLine
    \/ ReadEof
    \/ ReadInterrupt
    \/ ReadError
    \/ ProcessEof
    \/ ProcessEmpty
    \/ ProcessExit
    \/ ProcessEcho
    \/ ProcessInterrupt
    \/ ProcessError
    \/ HandleInterrupt
    \/ HandleError
    \/ HandlerFault

Spec == Init /\ [][Next]_vars

----------------------------------------------------------------------------
(* The program on a finite input stream that is closed after its last line *)

\* the lines of the finite streams
StreamLines ==
    { <<"h","e","l","l","o","\n">>,
      <<"o","k"," ","g","o","\n">>,
      <<"\n">>,
      <<"U7EE7","U7EED","\n">>,
      <<"t","a","s","k","_","C","O","M","P","L","E","T","E","\n">>,
      <<" ","U3000","o","k","\t"," ","\n">> }

\* lines 25-26; the stream's end bounds the number of iterations
StreamLoopHead ==
    /\ pc = "loop"
    /\ active_session
    /\ prompt_count' = prompt_count + 1
    /\ pc' = "read"
    /\ UNCHANGED <<active_session, line, err, out, inp, nread, state, now, exit_code>>

\* line 29: readline returns the stream's next line
StreamReadLine ==
    /\ pc = "read"
    /\ Len(inp) < MaxStream
    /\ \E l \in StreamLines :
          /\ line' = l
          /\ inp' = Append(inp, l)
    /\ nread' = nread + 1
    /\ Elapse
    /\ pc' = "proc"
    /\ UNCHANGED <<active_session, prompt_count, err, out, state, exit_code>>

StreamNext ==
    \/ Banner
    \/ BannerFault
    \/ StreamLoopHead
    \/ LoopInterrupt
    \/ StreamReadLine
    \/ ReadEof
    \/ ReadInterrupt
    \/ ReadError
    \/ ProcessEof
    \/ ProcessEmpty
    \/ ProcessExit
    \/ ProcessEcho
    \/ ProcessInterrupt
    \/ ProcessError
    \/ HandleInterrupt
    \/ HandleError
    \/ HandlerFault

\* the single thread always takes its next step, and a pending read ends:
\* the stream delivers a line or is closed (or a fault strikes)
StreamSpec == Init /\ [][StreamNext]_vars /\ WF_vars(StreamNext)

----------------------------------------------------------------------------
(* The exit sets and the line shapes of the specification *)

\* section 4.1: the Latin exit set (matched case-insensitively)
LatinExitSet ==
    { <<"t","a","s","k","_","c","o","m","p","l","e","t","e">>,
      <<"c","o","n","t","i","n","u","e">>,
      <<"n","e","x","t">>,
      <<"e","n","d">>,
      <<"c","o","m","p","l","e","t","e">>,
      <<"e","n","d","t","a","s","k">>,
      <<"c","o","n","t","i","n","u","e","_","t","a","s","k">>,
      <<"e","n","d","_","t","a","s","k">>,
      <<"o","k">>,
      <<"o","k","a","y">>,
      <<"d","o","n","e">>,
      <<"p","r","o","c","e","e","d">>,
      <<"a","c","c","e","p","t">>,
      <<"a","p","p","r","o","v","e","d">>,
      <<"s","u","b","m","i","t">>,
      <<"f","i","n","a","l">>,
      <<"f","i","n","i","s","h">>,
      <<"g","o">> }

\* section 4.1: the CJK exit set (matched exactly)
CjkExitSet ==
    { <<"U6CA1","U95EE","U9898">>,
      <<"U7EE7","U7EED">>,
      <<"U4E0B","U4E00","U6B65">>,
      <<"U5B8C","U6210">>,
      <<"U7ED3","U675F","U4EFB","U52A1">>,
      <<"U7ED3","U675F">>,
      <<"U53EF","U4EE5">>,
      <<"U597D","U4E86">>,
      <<"U901A","U8FC7">>,
      <<"U63A5","U53D7">>,
      <<"U63D0","U4EA4">>,
      <<"U6700","U7EC8">>,
      <<"U641E","U5B9A">>,
      <<"U884C">> }

\* the text of a line between its first and last non-whitespace character
Trimmed(l) ==
    LET ix == {i \in 1..Len(l) : l[i] \notin {" ", "\t", "\n", "U3000"}}
    IN  IF ix = {} THEN <<>>
        ELSE SubSeq(l, CHOOSE i \in ix : \A j \in ix : i <= j,
                       CHOOSE i \in ix : \A j \in ix : i >= j)

\* case folding: the letter a capital (or the Kelvin sign) stands for
Fold ==
    [c \in {Capitals[i] : i \in 1..26} \cup {"U212A"} |->
        IF c = "U212A" THEN "k"
        ELSE Letters[CHOOSE i \in 1..26 : Capitals[i] = c]]

\* u is an upper/lower-case spelling of a keyword of the Latin exit set
LatinMatch(u) ==
    [i \in 1..Len(u) |-> IF u[i] \in DOMAIN Fold THEN Fold[u[i]] ELSE u[i]]
        \in LatinExitSet

\* u is a non-empty text that is in neither exit set
IsSubPrompt(u) == u # <<>> /\ ~LatinMatch(u) /\ u \notin CjkExitSet

CjkChars == UNION {{kw[i] : i \in 1..Len(kw)} : kw \in CjkExitSet}

\* u is a CJK text that is not in the CJK exit set
CjkNearMiss(u) ==
    /\ u # <<>>
    /\ u \notin CjkExitSet
    /\ \E i \in 1..Len(u) : u[i] \in CjkChars
    /\ \A i \in 1..Len(u) : u[i] \in CjkChars \cup {" "}

DigitChars == {"0","1","2","3","4","5","6","7","8","9"}

\* l begins with [YYYY-MM-DD HH:MM:SS]
HasStamp(l) ==
    /\ Len(l) >= 22
    /\ l[1] = "["
    /\ l[2] \in DigitChars /\ l[3] \in DigitChars
    /\ l[4] \in DigitChars /\ l[5] \in DigitChars
    /\ l[6] = "-"
    /\ l[7] \in DigitChars /\ l[8] \in DigitChars
    /\ l[9] = "-"
    /\ l[10] \in DigitChars /\ l[11] \in DigitChars
    /\ l[12] = " "
    /\ l[13] \in DigitChars /\ l[14] \in DigitChars
    /\ l[15] = ":"
    /\ l[16] \in DigitChars /\ l[17] \in DigitChars
    /\ l[18] = ":"
    /\ l[19] \in DigitChars /\ l[20] \in DigitChars
    /\ l[21] = "]"

\* l is a timestamped notice whose message begins with text
IsNotice(l, text) == HasStamp(l) /\ l[22] = text

\* l is a sub-prompt echo: the marker is its first token
IsEcho(l) == Len(l) >= 1 /\ l[1] = Marker

\* the step emits exactly one line
EmitsOne == Len(out') = Len(out) + 1 /\ SubSeq(out', 1, Len(out)) = out

LastOut == out[Len(out)]

\* the step that processes the line just read runs to its end: no
\* exception is raised on the way
Completes == pc = "proc" /\ pc' \in {"loop", "done"}

Terminal == States \ {"active"}

----------------------------------------------------------------------------
(* Claims *)

\* C1: when a line whose text is an upper/lower-case spelling of a keyword of
\* the Latin exit set is processed, the loop ends in state user_exit: one
\* line is emitted, the user-exit notice (no sub-prompt echo), the flag is
\* cleared and the loop is left without another read.
C1_LatinExit ==
    [][ (Completes /\ line # <<>> /\ LatinMatch(Trimmed(line)))
        => /\ state' = "user_exit"
           /\ pc' = "done"
           /\ ~active_session'
           /\ EmitsOne
           /\ IsNotice(out'[Len(out')], ExitText)
           /\ ~IsEcho(out'[Len(out')])
           /\ nread' = nread /\ inp' = inp ]_vars

C1_Witness ==
    /\ pc = "done"
    /\ state = "user_exit"
    /\ inp = << <<"h","e","l","l","o","\n">>, <<"D","O","N","E","\n">> >>
    /\ IsNotice(LastOut, ExitText)

\* C2: a line whose text is exactly a keyword of the CJK exit set ends the
\* loop in state user_exit; a line whose trimmed text is a CJK string outside
\* the set (a keyword extended, cut short, reordered or split by a space)
\* does not end it: the session stays active and the loop goes on.
C2_CjkExact ==
    [][ /\ (Completes /\ line # <<>> /\ Trimmed(line) \in CjkExitSet)
           => /\ state' = "user_exit"
              /\ pc' = "done"
              /\ ~active_session'
              /\ EmitsOne
              /\ IsNotice(out'[Len(out')], ExitText)
        /\ (Completes /\ line # <<>> /\ CjkNearMiss(Trimmed(line)))
           => /\ state' = "active"
              /\ active_session'
              /\ pc' = "loop" ]_vars

C2_Witness ==
    /\ pc = "done"
    /\ state = "user_exit"
    /\ inp = << <<"U5B8C","U6210","U4E86","\n">>, <<"U5B8C","U6210","\n">> >>
    /\ IsEcho(out[4])
    /\ IsNotice(out[5], ExitText)

\* C3: when a line whose trimmed text is non-empty and in neither exit set
\* is processed, exactly one line is emitted, the marker, a space and the
\* trimmed text, with no timestamp, and the session stays active.
C3_SubPromptEcho ==
    [][ (Completes /\ line # <<>> /\ IsSubPrompt(Trimmed(line)))
        => /\ out' = Append(out, <<"USER_REVIEW_SUB_PROMPT:", " ">> \o Trimmed(line))
           /\ state' = "active"
           /\ active_session'
           /\ pc' = "loop" ]_vars

C3_Witness ==
    /\ pc = "loop"
    /\ state = "active"
    /\ inp = << <<" ","U3000","h","e","l","l","o","\t"," ","\n">>,
                <<"o","k"," ","g","o","\n">> >>
    /\ Len(out) = 5
    /\ out[5] = <<"USER_REVIEW_SUB_PROMPT:", " ", "o","k"," ","g","o">>

\* C4: when an empty or whitespace-only line is processed, the session stays
\* active and the loop goes on; the counter has been incremented for that
\* line (it equals the number of lines read); exactly one line is emitted,
\* the waiting notice carrying that count, and it is no sub-prompt echo.
C4_EmptyLine ==
    [][ (Completes /\ line # <<>> /\ Trimmed(line) = <<>>)
        => /\ state' = "active"
           /\ active_session'
           /\ pc' = "loop"
           /\ prompt_count = Len(inp)
           /\ prompt_count' = prompt_count
           /\ EmitsOne
           /\ LET l == out'[Len(out')]
              IN  /\ IsNotice(l, WaitingText)
                  /\ ~IsEcho(l)
                  /\ SubSeq(l, 23, Len(l)) =
                        DecStr(prompt_count) \o <<"): Waiting for input...">> ]_vars

C4_Witness ==
    /\ pc = "loop"
    /\ state = "active"
    /\ prompt_count = 2
    /\ inp = << <<"\n">>, <<"\t","U3000"," ","\n">> >>
    /\ IsNotice(out[4], WaitingText)
    /\ IsNotice(out[5], WaitingText)

\* C5: when the read has returned end of file, whatever the count and the
\* lines read before, the loop ends in state closed: one line is emitted,
\* the end-of-file notice, and the loop is left without another read.
C5_EofCloses ==
    [][ (Completes /\ line = <<>>)
        => /\ state' = "closed"
           /\ pc' = "done"
           /\ ~active_session'
           /\ EmitsOne
           /\ IsNotice(out'[Len(out')], EofText)
           /\ nread' = nread /\ inp' = inp
           /\ prompt_count' = prompt_count ]_vars

C5_Witness ==
    /\ pc = "done"
    /\ state = "closed"
    /\ prompt_count = 2
    /\ Len(inp) = 1
    /\ nread = 2
    /\ IsNotice(LastOut, EofText)

\* C6: the session state is one of active, closed, user_exit, interrupted,
\* error and starts as active; it only ever changes from active to one of the
\* four others, and once it is one of those no step reads a line, emits a
\* line, changes prompt_count or changes the state.
C6_TerminalAbsorbing ==
    /\ state = "active"
    /\ [](state \in States)
    /\ [][ /\ (state' # state => state = "active" /\ state' \in Terminal)
           /\ (state \in Terminal
               => /\ state' = state
                  /\ out' = out
                  /\ inp' = inp
                  /\ nread' = nread
                  /\ prompt_count' = prompt_count) ]_vars

C6_Witness ==
    /\ state = "error"
    /\ pc = "done"
    /\ prompt_count < MaxPrompts
    /\ Len(inp) = 1
    /\ IsNotice(LastOut, ErrorText)

\* C7: a KeyboardInterrupt raised during the blocking read is caught: the
\* read never ends in an unhandled fault, and the handler it enters, when it
\* runs to its end, emits exactly one line, the interrupted notice, and ends
\* the loop in state interrupted without another read.
C7_InterruptCaught ==
    [][ /\ (pc = "read" => pc' \in {"proc", "except_kbi", "except_exc"})
        /\ (pc = "except_kbi" /\ pc' # "crashed")
           => /\ state' = "interrupted"
              /\ pc' = "done"
              /\ ~active_session'
              /\ EmitsOne
              /\ IsNotice(out'[Len(out')], InterruptText)
              /\ nread' = nread /\ inp' = inp ]_vars

C7_Witness ==
    /\ state = "interrupted"
    /\ pc = "done"
    /\ nread = 2
    /\ Len(inp) = 1
    /\ line # <<>>
    /\ IsNotice(LastOut, InterruptText)

C9_NoUnhandledFault == pc # "crashed"

\* C10: every line emitted so far begins with [YYYY-MM-DD HH:MM:SS], except
\* the echo of a sub-prompt that was read, which is the marker, a space and
\* the trimmed text of that sub-prompt; no line has another shape.
C10_LineShapes ==
    \A i \in 1..Len(out) :
        \/ HasStamp(out[i]) /\ ~IsEcho(out[i])
        \/ /\ IsEcho(out[i])
           /\ \E k \in 1..Len(inp) :
                 /\ IsSubPrompt(Trimmed(inp[k]))
                 /\ out[i] = <<"USER_REVIEW_SUB_PROMPT:", " ">> \o Trimmed(inp[k])

C10_Witness ==
    /\ pc = "loop"
    /\ Len(out) = 5
    /\ SubSeq(out[1], 2, 20) = <<"2","0","2","6","-","1","2","-","3","1"," ",
                                 "2","3",":","5","9",":","5","9">>
    /\ IsEcho(out[4])
    /\ IsNotice(out[5], WaitingText)
    /\ SubSeq(out[5], 2, 20) = <<"2","0","2","7","-","0","1","-","0","1"," ",
                                 "0","0",":","0","0",":","0","0">>

\* C11 as stated: in every reachable state prompt_count equals the number
\* of lines read so far.
C11_CountEqualsLines == prompt_count = Len(inp)

\* C11 as amended: prompt_count starts at 0, never decreases and is never
\* reset; it is incremented once per iteration, before the read, so it
\* equals the number of reads begun: the number of lines read while a line
\* is processed and after it, one more while a read is pending and after a
\* read that returned end of file or raised.
C11_CountsReads ==
    /\ prompt_count = 0
    /\ [](prompt_count = nread + (IF pc = "read" THEN 1 ELSE 0))
    /\ [](Len(inp) <= prompt_count /\ prompt_count <= Len(inp) + 1)
    /\ []((pc = "proc" /\ line # <<>>) => prompt_count = Len(inp))
    /\ [][ /\ prompt_count' \in {prompt_count, prompt_count + 1}
           /\ (inp' # inp => /\ Len(inp') = Len(inp) + 1
                             /\ prompt_count' = Len(inp')) ]_vars

C11_Witness ==
    /\ pc = "read"
    /\ prompt_count = 2
    /\ inp = << <<"\n">> >>
    /\ nread = 1

\* C12: when the loop has ended, the process exit code is non-zero if the
\* terminal state is error or interrupted, and zero if it is closed or
\* user_exit.
C12_ExitCodes ==
    pc = "done" =>
        /\ state \in {"error", "interrupted"} => exit_code # 0
        /\ state \in {"closed", "user_exit"} => exit_code = 0

\* u is in one of the two exit sets
IsExitText(u) == LatinMatch(u) \/ u \in CjkExitSet

\* o is the response to the input line l: the waiting notice for an empty
\* line, the user-exit notice for an exit keyword, the echo otherwise
Answers(l, o) ==
    LET u == Trimmed(l)
    IN  IF u = <<>> THEN IsNotice(o, WaitingText)
        ELSE IF IsExitText(u) THEN IsNotice(o, ExitText)
        ELSE o = <<Marker, " ">> \o u

\* C13: the output after the three banner lines is the in-order image of
\* the input lines: the k-th line read is answered by the k-th line after
\* the banner, a sub-prompt echo for a non-empty non-exit line, a waiting
\* notice for an empty line, the user-exit notice for the first exit
\* keyword; no line before the last one read is an exit keyword, and once
\* the state is user_exit the loop has ended and no further line is read.
\* The last line read is answered as soon as its processing has run to its
\* end without raising.
C13_InOrderImage ==
    /\ [](\A k \in 1..Len(inp) :
            k < Len(inp) =>
                /\ ~IsExitText(Trimmed(inp[k]))
                /\ Len(out) >= 3 + k
                /\ Answers(inp[k], out[3 + k]))
    /\ []((inp # <<>> /\ (pc \in {"loop", "read"}
                          \/ state \in {"closed", "user_exit"})) =>
            /\ Len(out) >= 3 + Len(inp)
            /\ Answers(inp[Len(inp)], out[3 + Len(inp)]))
    /\ []((inp # <<>> /\ pc \in {"loop", "read", "done"}
                      /\ state \notin {"interrupted", "error"}) =>
            (IsExitText(Trimmed(inp[Len(inp)])) <=> state = "user_exit"))
    /\ [](state = "user_exit" =>
            /\ pc = "done"
            /\ Len(out) = 3 + Len(inp))
    /\ [][state = "user_exit" => (inp' = inp /\ out' = out)]_vars

C13_Witness ==
    /\ inp = << <<"h","e","l","l","o","\n">>, <<"\n">>,
                <<"U7EE7","U7EED","\n">> >>
    /\ state = "user_exit"
    /\ pc = "done"
    /\ Len(out) = 6
    /\ out[4] = <<Marker, " ", "h","e","l","l","o">>
    /\ IsNotice(out[5], WaitingText)
    /\ IsNotice(out[6], ExitText)

\* C14: when the processing of a line whose trimmed text is an
\* upper/lower-case spelling of a Latin exit keyword runs to its end, the
\* loop ends in user_exit and the notice cites, between its quotes, the
\* trimmed text exactly as typed, capitals kept.
C14_CitesAsTyped ==
    [][(Completes /\ LatinMatch(Trimmed(line))) =>
        LET u == Trimmed(line)
            l == out'[Len(out')]
        IN  /\ state' = "user_exit"
            /\ EmitsOne
            /\ IsNotice(l, ExitText)
            /\ Len(l) >= 23 + Len(u)
            /\ SubSeq(l, 23, 22 + Len(u)) = u
            /\ l[23 + Len(u)] = "' (after "]_vars

C14_Witness ==
    /\ state = "user_exit"
    /\ inp = << <<"t","a","s","k","_","C","O","M","P","L","E","T","E","\n">> >>
    /\ IsNotice(LastOut, ExitText)
    /\ SubSeq(LastOut, 23, 35)
           = <<"t","a","s","k","_","C","O","M","P","L","E","T","E">>

\* C15: the state leaves active only on one of four events: end of input
\* (the read returned no line), a recognised exit keyword, an interrupt, an
\* I/O or runtime error; on a finite stream that is then closed the loop,
\* once entered, reaches a terminal state, after at most one read more than
\* there are lines; a pending read is left only by a read event (no
\* timeout).
C15_EndsInTerminalState ==
    /\ [][state' # state =>
            /\ state = "active"
            /\ \/ state' = "closed" /\ pc = "proc" /\ line = <<>>
               \/ state' = "user_exit" /\ pc = "proc"
                                       /\ IsExitText(Trimmed(line))
               \/ state' = "interrupted" /\ pc = "except_kbi"
               \/ state' = "error" /\ pc = "except_exc"]_vars
    /\ [][(pc = "read" /\ pc' # "read") => nread' = nread + 1]_vars
    /\ [](nread <= Len(inp) + 1)
    /\ (pc = "loop") ~> (state \in Terminal)

\* C16: reading and emitting alternate strictly. Whenever a read is about
\* to begin or is pending, every line read so far has been answered by
\* exactly one output line, so the output is the banner plus one line per
\* line read, the last one being the echo or the waiting notice for the
\* line just read; the step that finishes a line and goes back to read
\* emits exactly one line; after the banner no step emits more than one
\* line, and no step reads and emits at once.
C16_Alternates ==
    /\ [](pc \in {"loop", "read"} =>
            /\ nread = Len(inp)
            /\ Len(out) = 3 + nread
            /\ (inp # <<>> =>
                  /\ Answers(inp[Len(inp)], LastOut)
                  /\ (IsEcho(LastOut) \/ IsNotice(LastOut, WaitingText))))
    /\ [][(pc = "proc" /\ pc' = "loop") => (EmitsOne /\ inp' = inp)]_vars
    /\ [][inp' # inp => (pc = "read" /\ out' = out)]_vars
    /\ [][(out' # out /\ pc # "start") => (EmitsOne /\ inp' = inp)]_vars

C16_Witness ==
    /\ pc = "read"
    /\ nread = 2
    /\ Len(out) = 5
    /\ IsEcho(out[4])
    /\ IsNotice(out[5], WaitingText)

\* what the trimmed text u alone decides, at time stamp ts and count n
TrimmedOutcome(u, ts, n) ==
    IF u = <<>>
    THEN [emit |-> WaitingLine(ts, n), state |-> "active", pc |-> "loop"]
    ELSE IF IsExitText(u)
    THEN [emit |-> ExitLine(ts, u, n), state |-> "user_exit", pc |-> "done"]
    ELSE [emit |-> <<Marker, " ">> \o u, state |-> "active", pc |-> "loop"]

\* C17: the outcome of processing a line is a function of its trimmed text
\* (with the time and the count): the line emitted, the state and whether
\* the loop goes on are those the trimmed text decides, so two lines that
\* differ only in leading or trailing whitespace get the same transition
\* and the same text; a keyword surrounded by whitespace ends the session,
\* and an echoed sub-prompt neither begins nor ends with whitespace. Two
\* answered lines of one session with the same trimmed text have the same
\* kind of answer, and the same echo.
C17_TrimmedDecides ==
    /\ [][(Completes /\ line # <<>>) =>
            LET o == TrimmedOutcome(Trimmed(line), Timestamp(now), prompt_count)
            IN  /\ out' = Append(out, o.emit)
                /\ state' = o.state
                /\ pc' = o.pc
                /\ active_session' = (o.state = "active")]_vars
    /\ [](\A k \in 1..Len(out) :
            IsEcho(out[k]) =>
                /\ Len(out[k]) >= 3
                /\ out[k][3] \notin {" ", "\t", "\n", "U3000"}
                /\ out[k][Len(out[k])] \notin {" ", "\t", "\n", "U3000"})
    /\ [](pc \in {"loop", "read"} =>
            \A j, k \in 1..Len(inp) :
                Trimmed(inp[j]) = Trimmed(inp[k]) =>
                    \/ IsEcho(out[3 + j]) /\ out[3 + j] = out[3 + k]
                    \/ /\ IsNotice(out[3 + j], WaitingText)
                       /\ IsNotice(out[3 + k], WaitingText))

C17_Witness ==
    /\ pc = "loop"
    /\ Len(inp) = 2
    /\ inp[1] = <<"h","e","l","l","o","\n">>
    /\ inp[2] = <<" ","U3000","h","e","l","l","o","\t"," ","\n">>
    /\ out[4] = <<Marker, " ", "h","e","l","l","o">>
    /\ out[5] = out[4]

\* the message text of the terminal notice of each terminal state
NoticeOf ==
    [s \in Terminal |->
        CASE s = "closed" -> EofText
          [] s = "user_exit" -> ExitText
          [] s = "interrupted" -> InterruptText
          [] s = "error" -> ErrorText]

IsTerminalNotice(l) == \E s \in Terminal : IsNotice(l, NoticeOf[s])

TerminalNotices == {k \in 1..Len(out) : IsTerminalNotice(out[k])}

\* C18: no two terminal notices are ever emitted; a session that has ended
\* inside the loop (a read has taken place and the program has stopped) has
\* emitted exactly one, as the last line of the output and of the kind of
\* the terminal state reached.
C18_OneTerminalNotice ==
    /\ Cardinality(TerminalNotices) <= 1
    /\ (pc \in {"done", "crashed"} /\ nread >= 1) =>
            /\ TerminalNotices = {Len(out)}
            /\ state \in Terminal
            /\ IsNotice(LastOut, NoticeOf[state])

\* the decimal numerals of the counts 1 to 9
Numerals == <<"1","2","3","4","5","6","7","8","9">>

\* C19: the waiting notice that answers the k-th line read carries the
\* number k; the user-exit notice answers the last line read and carries,
\* after the cited keyword, the total number of lines read in the session,
\* empty lines and the exit-keyword line itself included.
C19_CountsCited ==
    /\ \A k \in 1..Len(inp) :
          Len(out) >= 3 + k =>
            LET l == out[3 + k]
                u == Trimmed(inp[k])
            IN  /\ IsNotice(l, WaitingText) =>
                      /\ u = <<>>
                      /\ SubSeq(l, 23, Len(l) - 1) = <<Numerals[k]>>
                /\ IsNotice(l, ExitText) =>
                      /\ k = Len(inp)
                      /\ k = nread
                      /\ Len(l) = 25 + Len(u)
                      /\ l[24 + Len(u)] = Numerals[k]
    /\ state = "user_exit" => IsNotice(out[3 + Len(inp)], ExitText)

C19_Witness ==
    /\ state = "user_exit"
    /\ inp = << <<"\n">>, <<"h","e","l","l","o","\n">>,
                <<"U7EE7","U7EED","\n">> >>
    /\ SubSeq(out[4], 22, 24)
           = <<WaitingText, "1", "): Waiting for input...">>
    /\ SubSeq(out[6], 22, 27)
           = <<ExitText, "U7EE7", "U7EED", "' (after ", "3", " prompts) ---">>

\* C20: the flag agrees with the state machine: it is true exactly while
\* the state is active, hence in every state in which a read can still
\* happen, and once the loop has been left (a read has taken place and the
\* program has stopped) it is false.
C20_FlagAgrees ==
    /\ active_session <=> state = "active"
    /\ pc \in {"loop", "read", "proc"} => active_session
    /\ (pc \in {"done", "crashed"} /\ nread >= 1) => ~active_session

====
